---- MODULE Spec2Model ----
(***************************************************************************)
(* Voxel-wise fitting engine (AbstractFitting.fit, fit_pixel,              *)
(* calculate_r2, get_r2) and percentile map refiner (FittedMap) of bMRI.   *)
(*                                                                         *)
(* Numbers.  A float64 is modelled exactly as a pair <<n, d>>: a reduced   *)
(* fraction n/d with d > 0, or one of the IEEE specials with d = 0:        *)
(* <<0,0>> is NaN, <<1,0>> is +inf, <<-1,0>> is -inf.  Rounding is not     *)
(* modelled; division by zero, NaN propagation and NaN comparisons are.    *)
(*                                                                         *)
(* Geometry.  A volume of shape (T, n, 1, 1) (or (T, n, 1) before the 2-D  *)
(* promotion) is a sequence of n voxel series, each a sequence of T        *)
(* numbers; voxel (i, 0, 0) of the source is index i + 1 here.  A mask of  *)
(* shape (m, 1, 1) is a sequence of m labels.                              *)
(***************************************************************************)
EXTENDS Integers, Sequences, FiniteSets, TLC

\* ------------------------------------------------------------------ bounds
NVox == 2          \* largest number of voxels in a volume or a mask
NWorkers == 2      \* the pool size N used for pools = N > 0
NRegion == 3       \* number of voxels of the map handed to the refiner
MaxLabel == 2      \* largest region label L of the refiner's mask

\* --------------------------------------------------------------- float64
NaN == <<0, 0>>
PosInf == <<1, 0>>
NegInf == <<-1, 0>>

Abs(i) == IF i < 0 THEN -i ELSE i
Sign(i) == IF i < 0 THEN -1 ELSE IF i > 0 THEN 1 ELSE 0

RECURSIVE Gcd(_, _)
Gcd(a, b) == IF b = 0 THEN a ELSE Gcd(b, a % b)

\* the float64 n/d for integers n, d with d # 0
Frac(n, d) ==
  LET g == Gcd(Abs(n), Abs(d))
      s == Sign(d)
  IN  << (s * n) \div g, (s * d) \div g >>

Num(i) == <<i, 1>>
IsNaN(a) == a = NaN
IsInf(a) == a[2] = 0 /\ a[1] # 0
IsFinite(a) == a[2] # 0
IsZero(a) == a[2] # 0 /\ a[1] = 0

RAdd(a, b) ==
  IF IsNaN(a) \/ IsNaN(b) THEN NaN
  ELSE IF IsInf(a) /\ IsInf(b) THEN (IF a = b THEN a ELSE NaN)
  ELSE IF IsInf(a) THEN a
  ELSE IF IsInf(b) THEN b
  ELSE Frac(a[1] * b[2] + b[1] * a[2], a[2] * b[2])

RNeg(a) == << -a[1], a[2] >>

RSub(a, b) == RAdd(a, RNeg(b))

RMul(a, b) ==
  IF IsNaN(a) \/ IsNaN(b) THEN NaN
  ELSE IF IsInf(a) \/ IsInf(b)
       THEN (IF IsZero(a) \/ IsZero(b) THEN NaN
             ELSE << Sign(a[1]) * Sign(b[1]), 0 >>)
  ELSE Frac(a[1] * b[1], a[2] * b[2])

\* numpy's float64 true division: x/0 is nan or +-inf, never an exception
RDiv(a, b) ==
  IF IsNaN(a) \/ IsNaN(b) THEN NaN
  ELSE IF IsInf(b) THEN (IF IsInf(a) THEN NaN ELSE Num(0))
  ELSE IF IsZero(b) THEN (IF IsZero(a) THEN NaN ELSE << Sign(a[1]), 0 >>)
  ELSE IF IsInf(a) THEN << Sign(a[1]) * Sign(b[1]), 0 >>
  ELSE Frac(a[1] * b[2], a[2] * b[1])

\* a > b on float64: False as soon as one side is NaN
RGt(a, b) ==
  IF IsNaN(a) \/ IsNaN(b) THEN FALSE
  ELSE IF IsInf(a) THEN a = PosInf /\ b # PosInf
  ELSE IF IsInf(b) THEN b = NegInf
  ELSE a[1] * b[2] > b[1] * a[2]

RLt(a, b) == RGt(b, a)

RGe(a, b) == ~(IsNaN(a) \/ IsNaN(b)) /\ (a = b \/ RGt(a, b))

\* ------------------------------------------------------------ 1-D arrays
RECURSIVE np_sum(_)
np_sum(y) == IF y = <<>> THEN Num(0) ELSE RAdd(y[1], np_sum(Tail(y)))

np_mean(y) == RDiv(np_sum(y), Num(Len(y)))

HasNaN(y) == \E t \in 1..Len(y) : IsNaN(y[t])

\* np.max / np.min of a non-empty array: NaN as soon as an entry is NaN
np_max(y) ==
  IF HasNaN(y) THEN NaN
  ELSE y[CHOOSE t \in 1..Len(y) : \A u \in 1..Len(y) : ~RGt(y[u], y[t])]

np_min(y) ==
  IF HasNaN(y) THEN NaN
  ELSE y[CHOOSE t \in 1..Len(y) : \A u \in 1..Len(y) : ~RGt(y[t], y[u])]

ArrDiv(y, m) == [t \in 1..Len(y) |-> RDiv(y[t], m)]
ArrSub(y, z) == [t \in 1..Len(y) |-> RSub(y[t], z[t])]
ArrSubScalar(y, m) == [t \in 1..Len(y) |-> RSub(y[t], m)]
ArrSquare(y) == [t \in 1..Len(y) |-> RMul(y[t], y[t])]
AllFinite(y) == \A t \in 1..Len(y) : IsFinite(y[t])


\* ------------------------------------------------------- signal model
\* The acquisition times handed to fit as x.
TimeVec == <<0, 1, 2, 3>>

\* The signal model given to AbstractFitting: a callable of x and three
\* parameters (S0, decay, offset in T1rho.py).  The instance modelled here is
\* the polynomial a + b*x + c*x^2, whose least-squares fit is exact in
\* fractions; the engine never looks inside the callable.
fit_function(xs, param) ==
  [t \in 1..Len(xs) |->
     RAdd(param[1], RAdd(RMul(param[2], Num(xs[t])),
                         RMul(param[3], Num(xs[t] * xs[t]))))]

\* number of parameters of fit(x, S0, t1rho, offset)
NumParams == 3

\* The series on which the optimizer gives up (scipy raises RuntimeError,
\* "Optimal parameters not found"): a stand-in, fixed by the shape of the
\* series, for what Levenberg-Marquardt does on a hard series.
Converges(y) == ~(RLt(y[1], y[2]) /\ RGt(y[2], y[3]) /\ RLt(y[3], y[4]))

\* least squares of the polynomial on x = 0,1,2,3 by orthogonal contrasts
LeastSquares(y) ==
  LET c0 == RDiv(np_sum(y), Num(4))
      c1 == RDiv(RAdd(RAdd(RMul(Num(-3), y[1]), RNeg(y[2])),
                      RAdd(y[3], RMul(Num(3), y[4]))), Num(20))
      c2 == RDiv(RAdd(RSub(y[1], y[2]), RSub(y[4], y[3])), Num(4))
  IN  << RAdd(RSub(c0, RMul(Num(3), c1)), c2),
         RSub(RMul(Num(2), c1), RMul(Num(3), c2)),
         c2 >>

Outcome(kind, param, exc, y) == [kind |-> kind, param |-> param, exc |-> exc, y |-> y]

\* scipy.optimize.curve_fit(fit_function, x, y, **kwargs): check_finite
\* rejects a non-finite y with ValueError, a failed optimization raises
\* RuntimeError, otherwise the optimal parameters are returned.
curve_fit(y) ==
  IF ~AllFinite(y) THEN Outcome("raise", <<>>, "ValueError", y)
  ELSE IF ~Converges(y) THEN Outcome("raise", <<>>, "RuntimeError", y)
  ELSE Outcome("param", LeastSquares(y), "", y)

\* ------------------------------------------------------- fit_pixel
\* bounds is None ("none"), a pair of per-parameter sequences ("seq", wide
\* enough to hold every optimum), or a pair of floats ("scalar": the
\* annotated type Tuple[float, float], which curve_fit accepts).
BoundsKinds == {"none", "seq", "scalar"}
ConfigKinds == {"none", "opts"}

\* the rescaling without its guard: y /= np.max(y)
NormalizeUnguarded(y) == ArrDiv(y, np_max(y))

\* line 169: y /= np.max(y) if np.max(y) > 0 else 1   (in place)
NormalizeForFit(y) ==
  IF RGt(np_max(y), Num(0)) THEN ArrDiv(y, np_max(y)) ELSE ArrDiv(y, Num(1))

\* lines 182-194: the seed clamped into the bounds; bounds[0][0] on a pair
\* of floats raises TypeError.
ClampSeed(bounds) == IF bounds = "scalar" THEN "TypeError" ELSE ""

\* lines 206-210: only RuntimeError and ValueError become None
CaughtByFitPixel == {"RuntimeError", "ValueError"}

\* fit_pixel(y, x, fit_function, bounds, config, normalize, calc_p0): the
\* outcome, and in field y the array as the call leaves it.
fit_pixel(y, bounds, config, norm, calc_p0) ==
  LET yn == IF norm THEN NormalizeForFit(y) ELSE y
      seed == IF calc_p0 THEN ClampSeed(bounds) ELSE ""
      r == curve_fit(yn)
  IN  IF seed # "" THEN Outcome("raise", <<>>, seed, yn)
      ELSE IF r.kind = "raise"
           THEN (IF r.exc \in CaughtByFitPixel
                 THEN Outcome("None", <<>>, "", yn)
                 ELSE Outcome("raise", <<>>, r.exc, yn))
      ELSE Outcome("param", r.param, "", yn)

\* ------------------------------------------------------- calculate_r2
\* get_r2 is compiled by @njit.  With the JIT on (numba's default error
\* model "python") the scalar division ss_res / ss_tot raises
\* ZeroDivisionError when ss_tot == 0; with the JIT switched off
\* (NUMBA_DISABLE_JIT) the same division on np.float64 gives nan or -inf.
\* A NaN ss_tot is not zero and gives NaN either way.
get_r2(residuals, y, jit_on) ==
  LET ss_res == np_sum(ArrSquare(residuals))
      ss_tot == np_sum(ArrSquare(ArrSubScalar(y, np_mean(y))))
  IN  IF jit_on /\ IsZero(ss_tot)
      THEN Outcome("raise", <<>>, "ZeroDivisionError", y)
      ELSE Outcome("r2", << RSub(Num(1), RDiv(ss_res, ss_tot)) >>, "", y)

\* calculate_r2(y, fit_function, param, x, normalize); y /= y.max() is in
\* place and unguarded.
calculate_r2(y, param, xs, norm, jit_on) ==
  LET yn == IF norm THEN ArrDiv(y, np_max(y)) ELSE y
  IN  get_r2(ArrSub(yn, fit_function(xs, param)), yn, jit_on)

\* ======================================================= the engine
VARIABLES
  caller_dicom,   \* the caller's volume (argument dicom of fit)
  dicom_ndim,     \* len(dicom.shape) of the caller's volume
  mask,           \* the caller's mask
  mask_ndim,      \* len(mask.shape)
  x,              \* the time vector
  pools,          \* worker-pool size of the current call
  min_r2,         \* acceptance threshold
  normalize,      \* self.normalize
  bounds,         \* self.bounds
  fit_config,     \* self.fit_config
  jit,            \* whether numba compiles get_r2 (the default) or is disabled
  pc,             \* position of fit: call, reference, sequential, submit,
                  \* pool, aggregate, return, done, raised
  exc,            \* the exception fit raised ("" if none)
  dicom,          \* fit's float64 working copy of the volume
  fit_maps,       \* fit_maps[p][i]
  r2_map,         \* r2_map[i]
  pixel_results,  \* the list of fit_pixel outcomes, one per included voxel
  tasks,          \* pool tasks: the pickled copy of each voxel series
  workers,        \* per worker: the task it runs, 0 when idle
  n_done,         \* number of pool tasks finished
  pool_exc,       \* first exception a worker reported
  agg,            \* number of included voxels aggregated so far
  returned,       \* what fit returned: <<fit_maps, r2_map>>, <<>> before
  solver_calls,   \* <<"reference" | "fit_pixel", i>>: curve_fit ran on voxel i
  evaluated,      \* voxels handed to calculate_r2
  raised_in,      \* the position of fit at which it raised ("" if it has not)
  finish_order,   \* the pool tasks in the order in which the workers finished
  prev,           \* outcome of the previous call of fit on the same arguments
  dicom_is_copy,  \* whether fit's working volume is a buffer of its own
  entry,          \* the caller's volume, mask and time vector at the call
  fitted_y,       \* per voxel: the series curve_fit was run on by fit_pixel
  scored_y        \* per voxel: the series get_r2 was run on by calculate_r2

VARIABLES
  direct          \* the last direct call of fit_pixel: its arguments and outcome

VARIABLES
  low_percentile, \* FittedMap.low_percentile
  up_percentile,  \* FittedMap.up_percentile
  fitted_map,     \* the map read by __call__, as loaded
  label_mask,     \* the region mask as loaded
  work_mask,      \* the variable mask of __call__, rebuilt by every iteration
  label,          \* the loop variable i
  empty_percentile, \* np.percentile of an empty selection: "nan" or "IndexError"
  r_pc,           \* position of the refiner: new, ready, loop, returned, raised
  r_exc           \* the exception the refiner raised ("" if none)

refinerVars == <<low_percentile, up_percentile, fitted_map, label_mask, work_mask,
                 label, empty_percentile, r_pc, r_exc>>
inputVars == <<dicom_ndim, mask, mask_ndim, x, min_r2, normalize,
               bounds, fit_config, jit>>
localVars == <<dicom, fit_maps, r2_map, pixel_results, tasks, workers, n_done,
               pool_exc, agg>>
ghostVars == <<solver_calls, evaluated, raised_in, finish_order>>
seriesVars == <<fitted_y, scored_y>>
engineVars == <<caller_dicom, inputVars, pools, pc, exc, localVars, returned,
                ghostVars, prev, dicom_is_copy, entry, seriesVars>>

S(a, b, c, d) == <<Num(a), Num(b), Num(c), Num(d)>>
Linear == S(3, 2, 1, 0)        \* fitted exactly: R2 = 1
Decay == S(4, 1, 1, 0)         \* R2 = 41/45
Flat == S(2, 2, 2, 2)          \* constant: total sum of squares 0
ZeroMax == S(0, -1, -2, -2)    \* maximum 0
Negative == S(-1, -2, -3, -3)  \* maximum below 0
Zigzag == S(1, 3, 1, 3)        \* the optimizer does not converge
SeriesSet == { Linear, Decay, Flat, ZeroMax, Negative, Zigzag }
MainSeries == { Linear, Decay, Flat, Zigzag }
ShortSeries == <<Num(3), Num(2), Num(1)>>
Volumes == UNION { [1..n -> MainSeries] : n \in 1..NVox }
Masks == UNION { [1..m -> {0, 1}] : m \in 1..NVox }
PoolSizes == {0, NWorkers}
MinR2Set == { NegInf, Frac(1, 2), Num(1) }

Pending == [kind |-> "pending", param |-> <<>>, exc |-> ""]
NoPrev == [pc |-> "none", exc |-> "", returned |-> <<>>, pools |-> 0]

\* zip(*np.nonzero(mask)): the included voxels in ascending (C) order
RECURSIVE NonzeroFrom(_, _)
NonzeroFrom(m, i) ==
  IF i > Len(m) THEN <<>>
  ELSE (IF m[i] # 0 THEN <<i>> ELSE <<>>) \o NonzeroFrom(m, i + 1)

np_nonzero(m) == NonzeroFrom(m, 1)

Included == np_nonzero(mask)

\* calc_p0 = len(get_function_parameter(self.fit_function)) == 3
calc_p0 == NumParams = 3

NoSeries(m) == [i \in 1..Len(m) |-> <<>>]

LocalsIdle ==
  /\ dicom = <<>> /\ fit_maps = <<>> /\ r2_map = <<>> /\ pixel_results = <<>>
  /\ tasks = <<>> /\ workers = [w \in 1..NWorkers |-> 0] /\ n_done = 0
  /\ pool_exc = "" /\ agg = 0

\* volumes one voxel longer, over fewer series
LongVolumes == [1..(NVox + 1) -> { Linear, Zigzag }]

InputsInit ==
  \/ /\ caller_dicom \in Volumes
     /\ mask \in Masks
     /\ dicom_ndim = 4 /\ mask_ndim = 3
     /\ min_r2 \in MinR2Set
     /\ normalize \in BOOLEAN
     /\ bounds = "none"
     /\ jit = TRUE
  \/ /\ caller_dicom \in [1..1 -> SeriesSet]
     /\ mask = <<1>>
     /\ dicom_ndim = 4 /\ mask_ndim = 3
     /\ min_r2 \in MinR2Set
     /\ normalize \in BOOLEAN
     /\ bounds = "none"
     /\ jit \in BOOLEAN
  \/ /\ caller_dicom \in LongVolumes
     /\ mask \in [1..(NVox + 1) -> {0, 1}]
     /\ dicom_ndim = 4 /\ mask_ndim = 3
     /\ min_r2 = NegInf
     /\ normalize = FALSE
     /\ bounds = "none"
     /\ jit = TRUE
  \/ /\ caller_dicom \in { <<Linear, Decay>>, <<ShortSeries, ShortSeries>> }
     /\ mask = <<1, 1>>
     /\ dicom_ndim \in {3, 4} /\ mask_ndim \in {2, 3}
     /\ min_r2 = NegInf
     /\ normalize \in BOOLEAN
     /\ bounds \in BoundsKinds
     /\ jit = TRUE

EngineInit ==
  /\ InputsInit
  /\ x = TimeVec
  /\ fit_config = "none"
  /\ pools \in PoolSizes
  /\ pc = "call" /\ exc = ""
  /\ LocalsIdle
  /\ returned = <<>>
  /\ solver_calls = {} /\ evaluated = {} /\ raised_in = "" /\ finish_order = <<>>
  /\ prev = NoPrev
  /\ dicom_is_copy = TRUE
  /\ entry = [dicom |-> caller_dicom, mask |-> mask, x |-> x]
  /\ fitted_y = NoSeries(mask) /\ scored_y = NoSeries(mask)

\* line 66: dicom.astype("float64") returns a new array (copy=True is the
\* default), also when the volume is float64 already
AsTypeNoCopy(a) == [data |-> a, copy |-> FALSE]

astype(a) == [data |-> a, copy |-> TRUE]

Raise(e) == pc' = "raised" /\ exc' = e /\ raised_in' = pc

\* lines 66-72: the float64 copy and the two shape assertions
Validate ==
  /\ UNCHANGED <<direct, refinerVars>>
  /\ UNCHANGED <<caller_dicom, entry, seriesVars>>
  /\ pc = "call"
  /\ dicom' = astype(caller_dicom).data
  /\ dicom_is_copy' = astype(caller_dicom).copy
  /\ IF mask_ndim # dicom_ndim - 1 THEN Raise("AssertionError")
     ELSE IF Len(caller_dicom[1]) # Len(x) THEN Raise("AssertionError")
     ELSE pc' = "reference" /\ UNCHANGED <<exc, raised_in>>
  /\ UNCHANGED <<inputVars, pools, fit_maps, r2_map, pixel_results, tasks, workers,
                 n_done, pool_exc, agg, returned, solver_calls, evaluated,
                 finish_order, prev>>

\* lines 74-78: the reference solve on dicom[:, 0, 0, 0], then the empty maps
ReferenceVoxel == 1

ReferenceSolve ==
  /\ UNCHANGED <<direct, refinerVars>>
  /\ UNCHANGED <<caller_dicom, dicom_is_copy, entry, seriesVars>>
  /\ pc = "reference"
  /\ solver_calls' = solver_calls \cup { <<"reference", ReferenceVoxel>> }
  /\ LET r == curve_fit(dicom[ReferenceVoxel])
     IN  IF r.kind = "raise"
         THEN /\ Raise(r.exc)
              /\ UNCHANGED <<fit_maps, r2_map, pixel_results>>
         ELSE /\ fit_maps' = [p \in 1..Len(r.param) |-> [i \in 1..Len(mask) |-> NaN]]
              /\ r2_map' = [i \in 1..Len(mask) |-> Num(0)]
              /\ pixel_results' = [j \in 1..Len(Included) |-> Pending]
              /\ pc' = IF pools # 0 THEN "submit" ELSE "sequential"
              /\ UNCHANGED <<exc, raised_in>>
  /\ UNCHANGED <<inputVars, pools, dicom, tasks, workers, n_done, pool_exc, agg,
                 returned, evaluated, finish_order, prev>>


\* line 104, one iteration: the generator yields the view dicom[:, i, 0, 0]
\* and fit_pixel works on it in place
SeqFitPixel ==
  /\ UNCHANGED <<direct, refinerVars>>
  /\ UNCHANGED <<dicom_is_copy, entry, scored_y>>
  /\ pc = "sequential"
  /\ n_done < Len(Included)
  /\ LET j == n_done + 1
         i == Included[j]
     IN  IF i > Len(dicom)
         THEN /\ Raise("IndexError")
              /\ UNCHANGED <<dicom, pixel_results, n_done, solver_calls, fitted_y>>
         ELSE LET r == fit_pixel(dicom[i], bounds, fit_config, normalize, calc_p0)
              IN  /\ dicom' = [dicom EXCEPT ![i] = r.y]
                  /\ fitted_y' = [fitted_y EXCEPT ![i] = r.y]
                  /\ solver_calls' = solver_calls \cup { <<"fit_pixel", i>> }
                  /\ IF r.kind = "raise"
                     THEN /\ Raise(r.exc)
                          /\ UNCHANGED <<pixel_results, n_done>>
                     ELSE /\ pixel_results' = [pixel_results EXCEPT ![j] =
                                [kind |-> r.kind, param |-> r.param, exc |-> ""]]
                          /\ n_done' = j
                          /\ UNCHANGED <<pc, exc, raised_in>>
  /\ caller_dicom' = IF dicom_is_copy THEN caller_dicom ELSE dicom'
  /\ UNCHANGED <<inputVars, pools, fit_maps, r2_map, tasks, workers, pool_exc, agg,
                 returned, evaluated, finish_order, prev>>

\* line 104: the list comprehension is exhausted
SeqDone ==
  /\ UNCHANGED <<direct, refinerVars>>
  /\ UNCHANGED <<caller_dicom, dicom_is_copy, entry, seriesVars>>
  /\ pc = "sequential"
  /\ n_done = Len(Included)
  /\ pc' = "aggregate"
  /\ UNCHANGED <<inputVars, pools, exc, localVars, returned, ghostVars, prev>>

\* lines 100-102: starmap turns pixel_args into a list (every view is taken
\* before anything is submitted) and pickles one copy per task
PoolSubmit ==
  /\ UNCHANGED <<direct, refinerVars>>
  /\ UNCHANGED <<caller_dicom, dicom_is_copy, entry, seriesVars>>
  /\ pc = "submit"
  /\ IF \E j \in 1..Len(Included) : Included[j] > Len(dicom)
     THEN /\ Raise("IndexError")
          /\ UNCHANGED tasks
     ELSE /\ tasks' = [j \in 1..Len(Included) |->
                         [y |-> dicom[Included[j]], st |-> "queued"]]
          /\ pc' = "pool"
          /\ UNCHANGED <<exc, raised_in>>
  /\ UNCHANGED <<inputVars, pools, dicom, fit_maps, r2_map, pixel_results, workers,
                 n_done, pool_exc, agg, returned, solver_calls, evaluated,
                 finish_order, prev>>

\* an idle worker takes the next queued task
WorkerStart(w) ==
  /\ UNCHANGED <<direct, refinerVars>>
  /\ UNCHANGED <<caller_dicom, dicom_is_copy, entry, seriesVars>>
  /\ pc = "pool"
  /\ w <= pools
  /\ workers[w] = 0
  /\ \E j \in 1..Len(tasks) :
       /\ tasks[j].st = "queued"
       /\ \A h \in 1..(j - 1) : tasks[h].st # "queued"
       /\ tasks' = [tasks EXCEPT ![j].st = "running"]
       /\ workers' = [workers EXCEPT ![w] = j]
       /\ solver_calls' = solver_calls \cup { <<"fit_pixel", Included[j]>> }
  /\ UNCHANGED <<inputVars, pools, pc, exc, dicom, fit_maps, r2_map, pixel_results,
                 n_done, pool_exc, agg, returned, evaluated, raised_in, finish_order,
                 prev>>

\* results collected in the order in which the workers finish
ResultSlotByCompletion(j, finished) == finished + 1

\* starmap hands the results back in the order of the tasks, whatever the
\* order in which the workers finish
ResultSlot(j, finished) == j

\* a worker finishes fit_pixel on its copy of the series
WorkerFinish(w) ==
  /\ UNCHANGED <<direct, refinerVars>>
  /\ UNCHANGED <<caller_dicom, dicom_is_copy, entry, scored_y>>
  /\ pc = "pool"
  /\ workers[w] # 0
  /\ LET j == workers[w]
         r == fit_pixel(tasks[j].y, bounds, fit_config, normalize, calc_p0)
     IN  /\ tasks' = [tasks EXCEPT ![j] = [y |-> r.y, st |-> "done"]]
         /\ fitted_y' = [fitted_y EXCEPT ![Included[j]] = r.y]
         /\ IF r.kind = "raise"
            THEN /\ pool_exc' = IF pool_exc = "" THEN r.exc ELSE pool_exc
                 /\ UNCHANGED pixel_results
            ELSE /\ pixel_results' = [pixel_results EXCEPT ![ResultSlot(j, n_done)] =
                       [kind |-> r.kind, param |-> r.param, exc |-> ""]]
                 /\ UNCHANGED pool_exc
  /\ workers' = [workers EXCEPT ![w] = 0]
  /\ n_done' = n_done + 1
  /\ finish_order' = Append(finish_order, workers[w])
  /\ UNCHANGED <<inputVars, pools, pc, exc, dicom, fit_maps, r2_map, agg, returned,
                 solver_calls, evaluated, raised_in, prev>>

\* line 102 returns once every task is done, or re-raises a worker's exception
PoolJoin ==
  /\ UNCHANGED <<direct, refinerVars>>
  /\ UNCHANGED <<caller_dicom, dicom_is_copy, entry, seriesVars>>
  /\ pc = "pool"
  /\ n_done = Len(tasks)
  /\ IF pool_exc # "" THEN Raise(pool_exc)
     ELSE pc' = "aggregate" /\ UNCHANGED <<exc, raised_in>>
  /\ UNCHANGED <<inputVars, pools, localVars, returned, solver_calls, evaluated,
                 finish_order, prev>>

\* break instead of continue: the loop ends at the failed voxel
BreakAt(j, n) == n

\* line 108: if param is None: continue
ContinueAt(j, n) == j

\* line 113: if r2_map[i, j, k] > min_r2
GatePasses(r2, threshold) == RGt(r2, threshold)

\* only the first parameter is written
WriteFirstParam(fm, i, param) ==
  [p \in 1..Len(fm) |-> IF p = 1 THEN [fm[p] EXCEPT ![i] = param[p]] ELSE fm[p]]

\* lines 114-115: for p_num, p in enumerate(param): fit_maps[p_num][i, j, k] = p
WriteParams(fm, i, param) ==
  [p \in 1..Len(fm) |-> IF p <= Len(param) THEN [fm[p] EXCEPT ![i] = param[p]] ELSE fm[p]]

\* lines 107-115, one iteration of the aggregation loop
Aggregate ==
  /\ UNCHANGED <<direct, refinerVars>>
  /\ UNCHANGED <<dicom_is_copy, entry, fitted_y>>
  /\ pc = "aggregate"
  /\ agg < Len(Included)
  /\ LET j == agg + 1
         i == Included[j]
         res == pixel_results[j]
     IN  IF res.kind = "None"
         THEN /\ agg' = ContinueAt(j, Len(Included))
              /\ UNCHANGED <<pc, exc, raised_in, dicom, fit_maps, r2_map, evaluated,
                             scored_y>>
         ELSE LET r == calculate_r2(dicom[i], res.param, x, normalize, jit)
              IN  /\ evaluated' = evaluated \cup {i}
                  /\ dicom' = [dicom EXCEPT ![i] = r.y]
                  /\ scored_y' = [scored_y EXCEPT ![i] = r.y]
                  /\ IF r.kind = "raise"
                     THEN /\ Raise(r.exc)
                          /\ UNCHANGED <<fit_maps, r2_map, agg>>
                     ELSE /\ r2_map' = [r2_map EXCEPT ![i] = r.param[1]]
                          /\ fit_maps' = IF GatePasses(r.param[1], min_r2)
                                         THEN WriteParams(fit_maps, i, res.param)
                                         ELSE fit_maps
                          /\ agg' = j
                          /\ UNCHANGED <<pc, exc, raised_in>>
  /\ caller_dicom' = IF dicom_is_copy THEN caller_dicom ELSE dicom'
  /\ UNCHANGED <<inputVars, pools, pixel_results, tasks, workers, n_done, pool_exc,
                 returned, solver_calls, finish_order, prev>>

\* line 117: return np.array(fit_maps), r2_map
Return ==
  /\ UNCHANGED <<direct, refinerVars>>
  /\ UNCHANGED <<caller_dicom, dicom_is_copy, entry, seriesVars>>
  /\ pc = "aggregate"
  /\ agg = Len(Included)
  /\ returned' = <<fit_maps, r2_map>>
  /\ pc' = "done"
  /\ UNCHANGED <<inputVars, pools, exc, localVars, ghostVars, prev>>

\* the caller calls fit once more on the same arguments, with the other pool size
FitAgain ==
  /\ UNCHANGED <<direct, refinerVars>>
  /\ pc \in {"done", "raised"}
  /\ prev = NoPrev
  /\ prev' = [pc |-> pc, exc |-> exc, returned |-> returned, pools |-> pools]
  /\ pools' \in PoolSizes \ {pools}
  /\ pc' = "call" /\ exc' = ""
  /\ dicom' = <<>> /\ fit_maps' = <<>> /\ r2_map' = <<>> /\ pixel_results' = <<>>
  /\ tasks' = <<>> /\ workers' = [w \in 1..NWorkers |-> 0] /\ n_done' = 0
  /\ pool_exc' = "" /\ agg' = 0
  /\ returned' = <<>>
  /\ solver_calls' = {} /\ evaluated' = {} /\ raised_in' = "" /\ finish_order' = <<>>
  /\ dicom_is_copy' = TRUE
  /\ fitted_y' = NoSeries(mask) /\ scored_y' = NoSeries(mask)
  /\ UNCHANGED <<caller_dicom, entry, inputVars>>

EngineNext ==
  \/ Validate
  \/ ReferenceSolve
  \/ SeqFitPixel
  \/ SeqDone
  \/ PoolSubmit
  \/ \E w \in 1..NWorkers : WorkerStart(w)
  \/ \E w \in 1..NWorkers : WorkerFinish(w)
  \/ PoolJoin
  \/ Aggregate
  \/ Return
  \/ FitAgain

\* ======================================================= properties of fit
ParamsAt(fm, i) == [p \in 1..Len(fm) |-> fm[p][i]]
AllNaN(v) == \A p \in 1..Len(v) : IsNaN(v[p])
MapsExist == pc \in {"sequential", "submit", "pool", "aggregate", "done"}

\* fit_pixel called directly on the caller's series of voxel i, same settings
SolverDirect(i) == fit_pixel(caller_dicom[i], bounds, fit_config, normalize, calc_p0)

\* calculate_r2 called directly on the caller's series of voxel i with the
\* parameters of SolverDirect(i)
EvaluatorDirect(i) ==
  calculate_r2(caller_dicom[i], SolverDirect(i).param, x, normalize, jit)

\* C1: after fit returns, every voxel with mask value 0 has NaN parameters and
\* R2 = 0, and no solver call of the run, the reference solve included, ran
\* on its series.
C1_MaskedVoxelsNeverSolved ==
  pc = "done" =>
    \A i \in 1..Len(mask) :
      mask[i] = 0 =>
        /\ AllNaN(ParamsAt(returned[1], i))
        /\ returned[2][i] = Num(0)
        /\ \A c \in solver_calls : c[2] # i

\* C2: two calls of fit on the same volume, mask, time vector, model, bounds,
\* options, min_r2 and normalize, one with pools = 0 and one with pools = N,
\* end the same way and return identical parameter maps and R2 maps.
C2_SameOutputForEveryPoolSize ==
  (prev.pc # "none" /\ pc \in {"done", "raised"}) =>
    /\ prev.pools # pools
    /\ pc = prev.pc
    /\ returned = prev.returned

\* a sequential call and a pool call both returned, with normalize on, two
\* included voxels, one of them with parameters written
C2_Witness ==
  /\ prev.pc = "done" /\ pc = "done"
  /\ prev.pools = 0 /\ pools = NWorkers
  /\ normalize
  /\ Len(Included) >= 2
  /\ \E i \in 1..Len(mask) : ~AllNaN(ParamsAt(returned[1], i))
  /\ \E i \in 1..Len(mask) : mask[i] # 0 /\ AllNaN(ParamsAt(returned[1], i))

\* C3: the parameters stored at an included voxel whose solve succeeds and
\* whose R2 passes the gate are those fit_pixel returns when called directly
\* on that voxel's series; and whatever is stored at a voxel is that voxel's
\* own result, in every order in which the workers finish.
C3_StoredParamsAreTheVoxelsOwn ==
  pc = "done" =>
    \A i \in 1..Len(mask) :
      /\ (mask[i] # 0 /\ SolverDirect(i).kind = "param"
            /\ RGt(returned[2][i], min_r2))
           => ParamsAt(returned[1], i) = SolverDirect(i).param
      /\ ~AllNaN(ParamsAt(returned[1], i))
           => (mask[i] # 0 /\ ParamsAt(returned[1], i) = SolverDirect(i).param)

\* a pool run in which the second task finished first and both voxels got
\* different parameters written
C3_Witness ==
  /\ pc = "done" /\ pools # 0
  /\ Len(finish_order) >= 2 /\ finish_order[1] = 2
  /\ \E i, k \in 1..Len(mask) :
       /\ i # k
       /\ ~AllNaN(ParamsAt(returned[1], i))
       /\ ~AllNaN(ParamsAt(returned[1], k))
       /\ ParamsAt(returned[1], i) # ParamsAt(returned[1], k)

ParamsWritten(fm, i) == ~AllNaN(ParamsAt(fm, i))

\* C4: for every aggregated voxel whose solve did not fail, the computed R2 is
\* stored, and the parameters are written if and only if R2 >= min_r2 (so
\* also when R2 equals min_r2).
C4_GateIsInclusive ==
  pc \in {"aggregate", "done"} =>
    \A j \in 1..agg :
      pixel_results[j].kind = "param" =>
        LET i == Included[j]
        IN  /\ r2_map[i] = EvaluatorDirect(i).param[1]
            /\ ParamsWritten(fit_maps, i) <=> RGe(r2_map[i], min_r2)

\* C6: a voxel whose solve returned None keeps NaN parameters and R2 = 0 and
\* is never handed to calculate_r2; fit does not raise while aggregating it;
\* and when fit returns, every other voxel has been aggregated and holds the
\* values computed from its own series alone.
C6_FailureAbsorbed ==
  \A j \in 1..Len(pixel_results) :
    pixel_results[j].kind = "None" =>
      LET i == Included[j]
      IN  /\ i \notin evaluated
          /\ AllNaN(ParamsAt(fit_maps, i))
          /\ r2_map[i] = Num(0)
          /\ ~(pc = "raised" /\ raised_in = "aggregate" /\ agg + 1 = j)
          /\ pc = "done" =>
               /\ agg = Len(Included)
               /\ returned = <<fit_maps, r2_map>>
               /\ \A h \in 1..Len(pixel_results) :
                    pixel_results[h].kind = "param" =>
                      LET k == Included[h]
                      IN  /\ k \in evaluated
                          /\ r2_map[k] = EvaluatorDirect(k).param[1]
                          /\ ParamsAt(fit_maps, k) =
                               IF GatePasses(r2_map[k], min_r2)
                               THEN SolverDirect(k).param
                               ELSE [p \in 1..NumParams |-> NaN]

\* fit returned although a voxel's solve failed, and a voxel aggregated after
\* the failed one has its parameters written
C6_Witness ==
  /\ pc = "done"
  /\ \E j, h \in 1..Len(pixel_results) :
       /\ j < h
       /\ pixel_results[j].kind = "None"
       /\ ParamsWritten(fit_maps, Included[h])

IsConstant(y) == \A t \in 1..Len(y) : y[t] = y[1]

\* C7: for an included voxel with a constant series whose solve succeeds, fit
\* does not raise on it, and once it is aggregated its R2 entry is non-finite
\* and its parameters are NaN, for every min_r2.
C7_DegenerateR2Recorded ==
  \A j \in 1..Len(pixel_results) :
    (pixel_results[j].kind = "param" /\ IsConstant(caller_dicom[Included[j]])) =>
      /\ ~(pc = "raised" /\ raised_in = "aggregate" /\ agg + 1 = j)
      /\ (pc \in {"aggregate", "done"} /\ j <= agg) =>
           /\ ~IsFinite(r2_map[Included[j]])
           /\ AllNaN(ParamsAt(fit_maps, Included[j]))

\* the configuration errors of fit
ConfigurationError ==
  \/ mask_ndim # dicom_ndim - 1
  \/ Len(caller_dicom[1]) # Len(x)
  \/ Len(mask) # Len(caller_dicom)
  \/ curve_fit(caller_dicom[1]).kind = "raise"

\* C8: under a configuration error no voxel is handed to fit_pixel and fit
\* returns no maps.
C8_ConfigurationErrorsAreFatal ==
  ConfigurationError =>
    /\ \A c \in solver_calls : c[1] # "fit_pixel"
    /\ returned = <<>>
    /\ pc # "done"

\* C9: whenever the maps exist there are NumParams of them, and each voxel's
\* entries are either all NaN or all the finite entries of one fit_pixel
\* result of NumParams parameters.
C9_ParamsAllOrNothing ==
  MapsExist =>
    /\ Len(fit_maps) = NumParams
    /\ \A i \in 1..Len(mask) :
         \/ AllNaN(ParamsAt(fit_maps, i))
         \/ \E j \in 1..Len(pixel_results) :
              /\ Included[j] = i
              /\ pixel_results[j].kind = "param"
              /\ Len(pixel_results[j].param) = NumParams
              /\ ParamsAt(fit_maps, i) = pixel_results[j].param
              /\ AllFinite(ParamsAt(fit_maps, i))

\* in the middle of the aggregation: one voxel written, another included
\* voxel not yet aggregated
C9_Witness ==
  /\ pc = "aggregate" /\ 0 < agg /\ agg < Len(Included)
  /\ \E j \in 1..agg : ParamsWritten(fit_maps, Included[j])
  /\ \E j \in (agg + 1)..Len(Included) : pixel_results[j].kind = "param"

\* ======================================================= specifications
\* C13: with normalize on, the series calculate_r2 scores is the series
\* fit_pixel fitted, for every voxel that went through both, whatever the
\* sign of its maximum and whatever the pool size.
C13_EvaluatorScoresTheFittedSeries ==
  normalize =>
    \A i \in 1..Len(fitted_y) :
      (fitted_y[i] # <<>> /\ scored_y[i] # <<>>) => scored_y[i] = fitted_y[i]

\* C14: in every state of a call of fit, also after it returned or raised,
\* the caller's volume, mask and time vector hold the values they held when
\* fit was called.
C14_CallerInputsUnchanged ==
  /\ caller_dicom = entry.dicom
  /\ mask = entry.mask
  /\ x = entry.x

\* a sequential run with normalize on returned after the in-place rescaling
\* changed a series of the working volume
C14_Witness ==
  /\ pc = "done" /\ pools = 0 /\ normalize
  /\ \E i \in 1..Len(dicom) : i \in evaluated /\ dicom[i] # caller_dicom[i]

vars == <<engineVars, direct, refinerVars>>

EngineIdle ==
  /\ caller_dicom = <<>> /\ mask = <<>> /\ dicom_ndim = 0 /\ mask_ndim = 0
  /\ x = <<>> /\ min_r2 = NegInf /\ normalize = FALSE /\ bounds = "none"
  /\ fit_config = "none" /\ jit = TRUE /\ pools = 0
  /\ pc = "idle" /\ exc = ""
  /\ LocalsIdle
  /\ returned = <<>>
  /\ solver_calls = {} /\ evaluated = {} /\ raised_in = "" /\ finish_order = <<>>
  /\ prev = NoPrev
  /\ dicom_is_copy = TRUE
  /\ entry = [dicom |-> <<>>, mask |-> <<>>, x |-> <<>>]
  /\ fitted_y = <<>> /\ scored_y = <<>>

\* ------------------------------------------------------- fit_pixel alone
NoCall ==
  [called |-> FALSE, y |-> <<>>, bounds |-> "none", config |-> "none",
   normalize |-> FALSE, calc_p0 |-> FALSE, outcome |-> Outcome("", <<>>, "", <<>>)]

DirectIdle == direct = NoCall

\* a caller calls fit_pixel(y, x, fit_function, bounds, config, normalize, calc_p0)
DirectCall ==
  /\ \E y \in SeriesSet, b \in BoundsKinds, c \in ConfigKinds,
        n \in BOOLEAN, g \in BOOLEAN :
       direct' = [called |-> TRUE, y |-> y, bounds |-> b, config |-> c,
                  normalize |-> n, calc_p0 |-> g,
                  outcome |-> fit_pixel(y, b, c, n, g)]
  /\ UNCHANGED <<engineVars, refinerVars>>

\* ------------------------------------------------------- the refiner
\* values of the loaded map: a numeric array, not only whole numbers and not
\* only numbers an int16 holds (unsigned 16-bit pixel data reaches 65535)
MapVals == { Num(0), Num(2), Num(5), Frac(5, 2), Num(40000) }
Percentiles == {0, 25, 50, 100, 120}

\* .astype('int16') of a finite value: the fraction is cut off towards zero
\* and the whole number wraps into -32768 .. 32767
astype_int16(a) ==
  LET t == Sign(a[1]) * (Abs(a[1]) \div a[2])
  IN  ((t + 32768) % 65536) - 32768

ToFloat(a) == [k \in 1..Len(a) |-> Num(a[k])]

RECURSIVE Insert(_, _)
Insert(v, sorted) ==
  IF sorted = <<>> THEN <<v>>
  ELSE IF RGe(Head(sorted), v) THEN <<v>> \o sorted
  ELSE <<Head(sorted)>> \o Insert(v, Tail(sorted))

RECURSIVE Sort(_)
Sort(a) == IF a = <<>> THEN <<>> ELSE Insert(Head(a), Sort(Tail(a)))

\* np.percentile(a, q) of a non-empty array of finite values: linear
\* interpolation between the two order statistics around q/100 * (n - 1)
np_percentile(a, q) ==
  LET srt == Sort(a)
      n == Len(a)
      lo == (q * (n - 1)) \div 100
      frac == RSub(Frac(q * (n - 1), 100), Num(lo))
  IN  IF lo + 1 >= n THEN srt[n]
      ELSE RAdd(srt[lo + 1], RMul(frac, RSub(srt[lo + 2], srt[lo + 1])))

\* fit_map[mask == i]: the values of fit_map where the working mask equals i
RECURSIVE SelectFrom(_, _, _, _)
SelectFrom(fm, wm, i, v) ==
  IF v > Len(fm) THEN <<>>
  ELSE (IF wm[v] = Num(i) THEN <<fm[v]>> ELSE <<>>) \o SelectFrom(fm, wm, i, v + 1)

Selected(fm, wm, i) == SelectFrom(fm, wm, i, 1)

\* lines 28-29: the int16 copy of the map, zeroed where mask != i
RegionOf(fm, wm, i) ==
  [v \in 1..Len(fm) |-> IF wm[v] # Num(i) THEN 0 ELSE astype_int16(fm[v])]

\* lines 32-33: fit_map[fit_map < low] = 0; fit_map[fit_map > up] = 0
Clip(fm, low, up) ==
  [v \in 1..Len(fm) |->
     IF RLt(Num(fm[v]), low) \/ RGt(Num(fm[v]), up) THEN 0 ELSE fm[v]]

\* line 34: mask = np.where(fit_map != 0.0, fit_map, np.nan)
RebuildMask(fm) == [v \in 1..Len(fm) |-> IF fm[v] # 0 THEN Num(fm[v]) ELSE NaN]

\* int(mask.array.max())
RECURSIVE MaxOf(_)
MaxOf(a) ==
  IF Len(a) = 1 THEN a[1]
  ELSE LET m == MaxOf(Tail(a)) IN IF a[1] > m THEN a[1] ELSE m

RefinerIdle ==
  /\ low_percentile = 0 /\ up_percentile = 0
  /\ fitted_map = <<>> /\ label_mask = <<>> /\ work_mask = <<>>
  /\ label = 0 /\ empty_percentile = "nan"
  /\ r_pc = "idle" /\ r_exc = ""

RefinerInit ==
  /\ \/ /\ low_percentile \in Percentiles /\ up_percentile \in Percentiles
        /\ low_percentile < up_percentile /\ up_percentile <= 100
        /\ fitted_map \in [1..NRegion -> MapVals]
        /\ label_mask \in [1..NRegion -> 0..MaxLabel]
        /\ empty_percentile \in {"nan", "IndexError"}
     \/ /\ low_percentile \in Percentiles /\ up_percentile \in Percentiles
        /\ fitted_map = [v \in 1..NRegion |-> Num(5)]
        /\ label_mask = [v \in 1..NRegion |-> 1]
        /\ empty_percentile = "nan"
  /\ work_mask = <<>> /\ label = 0
  /\ r_pc = "new" /\ r_exc = ""

\* lines 8-17: FittedMap.__init__
Construct ==
  /\ r_pc = "new"
  /\ IF /\ low_percentile < up_percentile
        /\ low_percentile >= 0 /\ low_percentile <= 100
        /\ up_percentile >= 0 /\ up_percentile <= 100
     THEN r_pc' = "ready" /\ r_exc' = r_exc
     ELSE r_pc' = "raised" /\ r_exc' = "AssertionError"
  /\ UNCHANGED <<low_percentile, up_percentile, fitted_map, label_mask, work_mask,
                 label, empty_percentile>>
  /\ UNCHANGED <<engineVars, direct>>

\* lines 22-25: __call__ reads the map and the mask
Call ==
  /\ r_pc = "ready"
  /\ work_mask' = [v \in 1..Len(label_mask) |-> Num(label_mask[v])]
  /\ label' = 1
  /\ r_pc' = "loop"
  /\ UNCHANGED <<low_percentile, up_percentile, fitted_map, label_mask,
                 empty_percentile, r_exc>>
  /\ UNCHANGED <<engineVars, direct>>

\* lines 27-34: one iteration of the loop over i = 1 .. int(mask.array.max())
RefineLabel ==
  /\ r_pc = "loop"
  /\ label <= MaxOf(label_mask)
  /\ LET region == RegionOf(fitted_map, work_mask, label)
         sel == Selected(region, work_mask, label)
     IN  IF sel = <<>> /\ empty_percentile = "IndexError"
         THEN /\ r_pc' = "raised" /\ r_exc' = "IndexError"
              /\ UNCHANGED <<work_mask, label>>
         ELSE LET low == IF sel = <<>> THEN NaN
                         ELSE np_percentile(ToFloat(sel), low_percentile)
                  up == IF sel = <<>> THEN NaN
                        ELSE np_percentile(ToFloat(sel), up_percentile)
              IN  /\ work_mask' = RebuildMask(Clip(region, low, up))
                  /\ label' = label + 1
                  /\ UNCHANGED <<r_pc, r_exc>>
  /\ UNCHANGED <<low_percentile, up_percentile, fitted_map, label_mask,
                 empty_percentile>>
  /\ UNCHANGED <<engineVars, direct>>

\* line 36: return fitted_map, mask
RefinerReturn ==
  /\ r_pc = "loop"
  /\ label > MaxOf(label_mask)
  /\ r_pc' = "returned"
  /\ UNCHANGED <<low_percentile, up_percentile, fitted_map, label_mask, work_mask,
                 label, empty_percentile, r_exc>>
  /\ UNCHANGED <<engineVars, direct>>

\* C5: every direct call of fit_pixel ends with a parameter vector or None,
\* never with an exception.
C5_FitPixelNeverRaises ==
  direct.called => direct.outcome.kind \in {"param", "None"}

\* C10: with low_pct = 0 and up_pct = 100 the refined output holds, at every
\* voxel with a nonzero label, the value of the input map.
C10_FullRangeKeepsRegionValues ==
  (r_pc = "returned" /\ low_percentile = 0 /\ up_percentile = 100) =>
    \A v \in 1..Len(label_mask) :
      label_mask[v] # 0 => work_mask[v] = fitted_map[v]

\* the label mask as the array the loop starts from
LabelArray == [v \in 1..Len(label_mask) |-> Num(label_mask[v])]

\* the original map values of the voxels labelled i
RegionValues(i) == Selected(fitted_map, LabelArray, i)

\* C11: for a mask whose only label is 1, every non-NaN value of the refined
\* output lies between the low and the up percentile of the original map
\* values of region 1, and every voxel outside region 1 is NaN.
C11_SingleLabelWithinPercentiles ==
  (r_pc = "returned" /\ MaxOf(label_mask) = 1) =>
    LET lo == np_percentile(RegionValues(1), low_percentile)
        hi == np_percentile(RegionValues(1), up_percentile)
    IN  \A v \in 1..Len(label_mask) :
          /\ label_mask[v] # 1 => IsNaN(work_mask[v])
          /\ ~IsNaN(work_mask[v]) =>
                RGe(work_mask[v], lo) /\ RGe(hi, work_mask[v])

\* one step of the fold for label i: the voxels marked i in the working mask
\* wm, their percentile bounds on the map, and the next working mask, the
\* map value at the voxels that stay and are nonzero, NaN elsewhere
FoldStep(wm, i) ==
  LET vals == Selected(fitted_map, wm, i)
      low == IF vals = <<>> THEN NaN ELSE np_percentile(vals, low_percentile)
      up == IF vals = <<>> THEN NaN ELSE np_percentile(vals, up_percentile)
  IN  [v \in 1..Len(wm) |->
         IF /\ wm[v] = Num(i)
            /\ ~RLt(fitted_map[v], low)
            /\ ~RGt(fitted_map[v], up)
            /\ ~IsZero(fitted_map[v])
         THEN fitted_map[v]
         ELSE NaN]

RECURSIVE Fold(_, _, _)
Fold(wm, i, L) == IF i > L THEN wm ELSE Fold(FoldStep(wm, i), i + 1, L)

\* C12: the returned refined map is the fold over the labels 1..L in
\* ascending order, started from the label mask, in which each label's region
\* is read from the working mask the label before it left.
C12_OutputIsTheFold ==
  r_pc = "returned" => work_mask = Fold(LabelArray, 1, MaxOf(label_mask))

Init == EngineInit /\ DirectIdle /\ RefinerIdle
Next == EngineNext
Spec == Init /\ [][Next]_vars

SolverInit == EngineIdle /\ DirectIdle /\ RefinerIdle
SolverNext == DirectCall
SpecSolver == SolverInit /\ [][SolverNext]_vars

RefineInit == EngineIdle /\ DirectIdle /\ RefinerInit
RefineNext == Construct \/ Call \/ RefineLabel \/ RefinerReturn
SpecRefine == RefineInit /\ [][RefineNext]_vars
====
